---- MODULE Spec2Model ----
(***************************************************************************)
(* ShellTools: the asynchronous command shell of src/shell.py.             *)
(*                                                                         *)
(* Two execution contexts are modelled:                                    *)
(*   "thread"  the worker thread that runs cmd.Cmd.cmdloop (the blocking   *)
(*             read loop started by Shell.run through asyncio.to_thread);  *)
(*   "loop"    the asyncio event loop, which runs one callback at a time   *)
(*             from its FIFO ready queue: Shell.__create_task, the steps   *)
(*             of command tasks, Shell.__finalize_task, the banner refresh *)
(*             task and the continuation of Shell.run.                     *)
(* A callback of the loop is executed one operation at a time, so that the *)
(* thread interleaves with it exactly where the two share state: the       *)
(* ready queue, __continue, __banner and the output lock.                  *)
(***************************************************************************)
EXTENDS Naturals, Sequences, FiniteSets, TLC

\* ------------------------------------------------------------------ bounds

\* Number of lines the input stream holds before its end (end of stream is
\* then read as the line EOF).
MaxLines == 2

\* Number of periodic refresh writes a banner makes before its refresh task
\* only waits for the stop event.
MaxRefresh == 1

\* Number of times Shell.run is called again on a shell whose run has
\* returned (in the specification SpecAgain only).
MaxAgain == 1

\* ---------------------------------------------------------------- constants

DEFAULT_PROMPT == "[shell] > "

UP_GOER == "ESC[F"

\* _line_eraser(): "\r" + " " * columns + "\r", kept as one token
ERASER == "\\r<spaces>\\r"

NL == "\\n"

None == "None"

\* ------------------------------------------------------------ the input

\* A line is the sequence of its whitespace-separated words (str.split()).
\* The words cover every path of cmd.Cmd.onecmd and of the argument parser.
EMPTY == << >>

\* The lines the input may hold: every path of cmd.Cmd.onecmd and of the
\* argument parser.
AllLines ==
    { EMPTY, <<"EOF">>, <<"help">>, <<"bogus">>,
      <<"increment">>, <<"increment", "5">>, <<"increment_by", "5">>,
      <<"increment_by", "x">>, <<"increment_by">>,
      <<"error">>, <<"panic">>, <<"timmed_alert">>, <<"banner">>, <<"nested">> }

\* The commands a shell declares with @command (those of MockShell in the
\* tests). A shell under check declares one of these sets of commands.
Commands ==
    {"increment", "increment_by", "error", "panic", "timmed_alert", "banner", "nested"}

Shells ==
    { {"increment", "increment_by"},
      {"increment", "error", "panic"},
      {"timmed_alert", "increment", "panic"},
      {"banner", "error"},
      {"banner", "nested"} }

\* The lines typed to a shell: the empty line, EOF, help, an unknown word,
\* and the lines of the commands it declares.
Lines(registered) ==
    { l \in AllLines : l = EMPTY \/ l[1] \notin Commands \/ l[1] \in registered }

\* ------------------------------------------------------ cmd.Cmd dispatch

\* cmd.Cmd.emptyline via onecmd: an empty line repeats lastcmd (which may
\* itself be empty: then nothing is dispatched).
Resolve(line, lastcmd) ==
    IF line = EMPTY THEN lastcmd ELSE line

\* cmd.Cmd.onecmd: lastcmd after the line was dispatched.
NextLastcmd(line, lastcmd) ==
    IF line = EMPTY THEN lastcmd
    ELSE IF line = <<"EOF">> THEN EMPTY
    ELSE line

\* cmd.Cmd.onecmd: the handler a (resolved) line is dispatched to: do_EOF and
\* do_help, the do_ method of a declared command, and default for any
\* other word (getattr fails).
Handler(line, registered) ==
    IF line = EMPTY THEN "emptyline"
    ELSE IF line[1] = "EOF" THEN "do_EOF"
    ELSE IF line[1] = "help" THEN "do_help"
    ELSE IF line[1] \in registered THEN "command"
    ELSE "default"

\* --------------------------------------------------- the argument parser

\* int(word) of the argument parser's type=int: a record [ok, value].
ToInt(word) ==
    IF word = "5" THEN [ok |-> TRUE, value |-> 5]
    ELSE IF word = "1" THEN [ok |-> TRUE, value |-> 1]
    ELSE [ok |-> FALSE, value |-> 0]

\* The positional arguments declared with @argument, by command.
ArgSpec(cmd) ==
    IF cmd = "increment_by" THEN <<"int">> ELSE << >>

\* _Parser.parse: ArgumentParser.parse_args(line.split()) for the command's
\* specification: [ok, n, msg]; on failure msg is what _Parser.error gets.
Parse(cmd, args) ==
    LET spec == ArgSpec(cmd) IN
    IF Len(args) < Len(spec)
        THEN [ok |-> FALSE, n |-> 0, msg |-> "the following arguments are required"]
    ELSE IF Len(spec) = 1 /\ ~ToInt(args[1]).ok
        THEN [ok |-> FALSE, n |-> 0, msg |-> "invalid int value"]
    ELSE IF Len(args) > Len(spec)
        THEN [ok |-> FALSE, n |-> 0, msg |-> "unrecognized arguments"]
    ELSE [ok |-> TRUE,
          n |-> IF Len(spec) = 1 THEN ToInt(args[1]).value ELSE 0,
          msg |-> ""]

\* ------------------------------------------------------ coroutine bodies

\* One operation of a coroutine or callback run by the event loop.
Op(op, msg, mod, regen, n) ==
    [op |-> op, msg |-> msg, mod |-> mod, regen |-> regen, n |-> n]

\* Shell.log_error / log_help / log_status / log: the modifier each passes.
OpLogError(msg) == Op("log", msg, "in_red", TRUE, 0)

OpLogStatus(msg, regen) == Op("log", msg, "in_yellow_bold", regen, 0)

OpLog(msg) == Op("log", msg, None, TRUE, 0)

OpInc(n) == Op("inc", << >>, None, FALSE, n)

OpSleep == Op("sleep", << >>, None, FALSE, 0)

OpRaise(kind, msg) == Op("raise", msg, kind, FALSE, 0)

OpSimple(op) == Op(op, << >>, None, FALSE, 0)

\* The banner text the commands of the tests display, and their refresh
\* delay (refresh_delay_s=60e-3).
BANNER_TEXT == "Spinning..."

OUTER_TEXT == "Hello..."

INNER_TEXT == "...there !"

BANNER_DELAY == "60e-3"

\* async with self.banner(text, refresh_delay_s=delay): Shell.banner up to
\* its yield.
OpBanner(text, delay) == Op("banner_enter", text, delay, FALSE, 0)

\* Leaving the scope of a banner: Shell.banner after its yield.
BannerExit ==
    <<OpSimple("banner_set_stop"), OpSimple("banner_await"), OpSimple("banner_clear")>>

\* The bodies of the commands (MockShell of the tests), as the operations
\* they perform between suspension points.
Body(cmd, n) ==
    CASE cmd = "increment" -> <<OpInc(1)>>
      [] cmd = "increment_by" -> <<OpInc(n)>>
      [] cmd = "error" -> <<OpRaise("ShellError", <<"Oops">>)>>
      [] cmd = "panic" -> <<OpRaise("Exception", <<"I panicked">>)>>
      [] cmd = "timmed_alert" ->
            <<OpLog(<<"alert1">>), OpSleep, OpLog(<<"alert2">>), OpSleep,
              OpLog(<<"alert3">>)>>
      [] cmd = "banner" ->
            <<OpBanner(BANNER_TEXT, BANNER_DELAY), OpSleep>> \o BannerExit
      [] cmd = "nested" ->
            <<OpBanner(OUTER_TEXT, BANNER_DELAY), OpBanner(INNER_TEXT, BANNER_DELAY),
              OpSleep>> \o BannerExit \o BannerExit
      [] OTHER -> << >>

\* _Parser.error: print_usage, log the message, raise SystemExit.
ParserError(cmd, msg) ==
    <<OpLogError(<<"usage:", cmd>>), OpLogError(<<msg>>),
      OpRaise("SystemExit", << >>)>>

\* _Wrapper.__call__: parse the line inside the coroutine, then await the body.
Coroutine(line) ==
    LET p == Parse(line[1], Tail(line)) IN
    IF p.ok THEN Body(line[1], p.n) ELSE ParserError(line[1], p.msg)

\* _Wrapper.__call__ without its except SystemExit clause.
WrapperOutcomeNoCatch(kind) == kind

\* _Wrapper.__call__'s except clause: SystemExit ends the coroutine normally,
\* any other exception leaves it.
WrapperOutcome(kind) ==
    IF kind = "SystemExit" THEN "ok" ELSE kind

\* Shell.__update_banner_task, the part after the first write: the while loop
\* and the final cleanup write.
BannerLoop(stopped) ==
    IF stopped THEN <<Op("bwrite", << >>, "cleanup", TRUE, 0)>>
    ELSE <<Op("bwrite", << >>, "refresh", TRUE, 0), OpSleep, OpSimple("banner_loop")>>

\* Shell.__update_banner_task without its test of __use_rawinput.
BannerTaskAlways(raw) ==
    <<Op("bwrite", << >>, "first", TRUE, 0), OpSimple("banner_loop")>>

\* Shell.__update_banner_task up to its loop.
BannerTask(raw) ==
    IF ~raw THEN << >>
    ELSE <<Op("bwrite", << >>, "first", TRUE, 0), OpSimple("banner_loop")>>

\* Shell.__finalize_task with its except ShellError clause left out.
FinalizeTaskAllFatal(outcome, msg) ==
    CASE outcome = "ok" -> << >>
      [] outcome \in {"ShellError", "Exception"} ->
            <<OpSimple("set_continue_false"),
              OpLogError(<<"An unrecoverable error has occured :">> \o msg),
              OpLogStatus(<<"Press ENTER to quit.">>, TRUE)>>
      [] OTHER -> << >>

\* Shell.__finalize_task with self.__continue = False left out.
FinalizeTaskNoStop(outcome, msg) ==
    CASE outcome = "ok" -> << >>
      [] outcome = "ShellError" -> <<OpLogError(msg)>>
      [] outcome = "Exception" ->
            <<OpLogError(<<"An unrecoverable error has occured :">> \o msg),
              OpLogStatus(<<"Press ENTER to quit.">>, TRUE)>>
      [] OTHER -> << >>

\* Shell.__finalize_task: what the finalizer does for a task's outcome.
\* An outcome that is neither ShellError nor an Exception (a BaseException
\* such as a cancellation) is caught by neither clause.
FinalizeTask(outcome, msg) ==
    CASE outcome = "ok" -> << >>
      [] outcome = "ShellError" -> <<OpLogError(msg)>>
      [] outcome = "Exception" ->
            <<OpSimple("set_continue_false"),
              OpLogError(<<"An unrecoverable error has occured :">> \o msg),
              OpLogStatus(<<"Press ENTER to quit.">>, TRUE)>>
      [] OTHER -> << >>

\* Shell.run after the read loop has returned.
RunExit == <<OpLogStatus(<<"Exiting the shell...">>, FALSE)>>

\* Shell.default: the message it logs for a line.
DefaultMsg(line) == <<"in_bold", line[1], "reset", "is not a command">>

\* ------------------------------------------------------------ rendering

\* Shell.log applying the modifier without the test of __use_rawinput.
LogTextAlwaysStyled(msg, modifier, raw, banner) ==
    LET styled == IF modifier # None
                     THEN <<modifier>> \o msg \o <<"reset">>
                     ELSE msg
    IN  IF raw
            THEN <<ERASER>> \o styled \o <<NL>> \o
                 (IF banner # None THEN <<ERASER, NL, banner, UP_GOER>> ELSE << >>)
            ELSE styled \o <<NL>>

\* Shell.log: the string handed to write_raw.
LogText(msg, modifier, raw, banner) ==
    LET styled == IF modifier # None /\ raw
                     THEN <<modifier>> \o msg \o <<"reset">>
                     ELSE msg
    IN  IF raw
            THEN <<ERASER>> \o styled \o <<NL>> \o
                 (IF banner # None THEN <<ERASER, NL, banner, UP_GOER>> ELSE << >>)
            ELSE styled \o <<NL>>

\* Shell.__update_banner_task: the strings of its three writes.
BannerText(which, banner) ==
    CASE which = "first" -> <<NL, banner, UP_GOER>>
      [] which = "refresh" -> <<NL, ERASER, banner, UP_GOER, ERASER>>
      [] OTHER -> <<NL, ERASER, UP_GOER>>

\* ---------------------------------------------------------------- state

VARIABLES
    registered,     \* the commands the shell declares (its do_ methods)
    use_rawinput,   \* Shell.__use_rawinput: interactive mode
    __continue,     \* Shell.__continue ("accepting"); None before run
    __banner,       \* Shell.__banner: the active banner or None
    __banner_refresh_delay_s,   \* Shell.__banner_refresh_delay_s
    stop_event,     \* Shell.__update_banner_stop_event is set
    x,              \* MockShell.x, the counter the commands increment
    runpc,          \* Shell.run: "idle", "cmdloop", "exiting", "returned"
    thread,         \* the read loop: [pc, line]
    lastcmd,        \* cmd.Cmd.lastcmd
    nread,          \* lines read from the input stream
    ready,          \* the event loop's FIFO of callbacks
    tasks,          \* the tasks created on the loop, in creation order
    cur,            \* the callback the loop is running: [k, t, prog]
    lock,           \* _SynchronizedOStream's lock: "free" or its holder
    wr,             \* per context, the stage of its compound write
    out,            \* the writes made to the output sink, in order
    submitted,      \* the lines handed to call_soon_threadsafe, in order, each
                    \* with its number and whether a ShellError had been
                    \* finalized by then
    refreshes,      \* periodic refresh writes made by the banner task
    drained         \* lines read while __continue was False

vars ==
    <<registered, use_rawinput, __continue, __banner, __banner_refresh_delay_s,
      stop_event, x, runpc, thread,
      lastcmd, nread, ready, tasks, cur, lock, wr, out, submitted, refreshes,
      drained>>

Contexts == {"thread", "loop"}

NoCb == [k |-> "none", t |-> 0, prog |-> << >>]

Cb(k, t, line) == [k |-> k, t |-> t, line |-> line]

\* Shell.__init__ (and cmd.Cmd.__init__): the state after construction.
Init ==
    /\ registered \in Shells
    /\ use_rawinput \in BOOLEAN
    /\ __continue = None
    /\ __banner = None
    /\ __banner_refresh_delay_s = None
    /\ stop_event = FALSE
    /\ x = 0
    /\ runpc = "idle"
    /\ thread = [pc |-> "idle", line |-> EMPTY]
    /\ lastcmd = EMPTY
    /\ nread = 0
    /\ ready = << >>
    /\ tasks = << >>
    /\ cur = NoCb
    /\ lock = "free"
    /\ wr = [c \in Contexts |-> [stage |-> "none", idx |-> 0]]
    /\ out = << >>
    /\ submitted = << >>
    /\ refreshes = 0
    /\ drained = 0

\* ------------------------------------------------------ the event loop

\* BaseEventLoop.call_soon / call_soon_threadsafe: the ready queue is a FIFO.
CallSoon(q, cb) == Append(q, cb)

\* A task created on the loop. fin: Shell.__finalize_task is registered as
\* its done callback; waiter: the task awaiting it (0: none); child: the
\* banner refresh task a command started (0: none). st is "new" until the
\* first step, then "running", "sleeping", "waiting", "ready" (woken up),
\* "done" and, once the finalizer has returned, "finalized". lineno (the
\* input line the task comes from) and steps (the steps it has taken) are
\* kept for the properties only.
NewTask(line, lineno, prog, fin) ==
    [line |-> line, lineno |-> lineno, prog |-> prog, st |-> "new",
     steps |-> 0, outcome |-> "pending", msg |-> << >>, fin |-> fin,
     waiter |-> 0, child |-> 0]

\* The part of the state the callbacks of the loop work on. A step of the
\* loop is computed on this record and then stored (Store).
Here ==
    [cur |-> cur, tasks |-> tasks, ready |-> ready, x |-> x,
     stop_event |-> stop_event, banner |-> __banner,
     delay |-> __banner_refresh_delay_s, cont |-> __continue,
     runpc |-> runpc]

Store(L) ==
    /\ cur' = L.cur
    /\ tasks' = L.tasks
    /\ ready' = L.ready
    /\ x' = L.x
    /\ stop_event' = L.stop_event
    /\ __banner' = L.banner
    /\ __banner_refresh_delay_s' = L.delay
    /\ __continue' = L.cont
    /\ runpc' = L.runpc

PopOp(L) == [L EXCEPT !.cur.prog = Tail(@)]

EndCallback(L) == [L EXCEPT !.cur = NoCb]

\* Future.__schedule_callbacks: the done callbacks of task t, in the order
\* they were added (the finalizer first, then the wake-up of its waiter).
DoneCallbacks(L, t) ==
    (IF L.tasks[t].fin THEN <<Cb("finalize", t, EMPTY)>> ELSE << >>) \o
    (IF L.tasks[t].waiter # 0 THEN <<Cb("step", L.tasks[t].waiter, EMPTY)>> ELSE << >>)

\* A task ends (returns or raises): its outcome is stored and its done
\* callbacks are scheduled with call_soon.
Complete(L, outcome, msg) ==
    LET t == L.cur.t IN
    EndCallback(
        [L EXCEPT !.tasks[t].st = "done", !.tasks[t].outcome = outcome,
                  !.tasks[t].msg = msg, !.tasks[t].prog = << >>,
                  !.ready = @ \o DoneCallbacks(L, t)])

\* ------------------------------------------- operations of a callback

\* Shell.__create_task with loop.create_task left out: no task is made.
CreateTaskDropped(L, line, lineno) ==
    PopOp(L)

\* Shell.__create_task: create the task (its first step is scheduled with
\* call_soon) and register the finalizer.
CreateTask(L, line, lineno) ==
    PopOp([L EXCEPT !.tasks = Append(@, NewTask(line, lineno, Coroutine(line), TRUE)),
                    !.ready = CallSoon(@, Cb("step", Len(L.tasks) + 1, EMPTY))])

\* Shell.run going on as soon as the thread's result is there, ahead of the
\* callbacks already scheduled.
SetStateFront(L) ==
    PopOp([L EXCEPT !.ready = <<Cb("wakeup_run", 0, EMPTY)>> \o @])

\* The future of asyncio.to_thread gets the thread's result: the wake-up of
\* Shell.run, which awaits it, is scheduled with call_soon.
SetState(L) ==
    PopOp([L EXCEPT !.ready = CallSoon(@, Cb("wakeup_run", 0, EMPTY))])

\* MockShell.do_increment / do_increment_by: self.x += n.
ExecInc(L, n) ==
    PopOp([L EXCEPT !.x = @ + n])

\* await asyncio.sleep(...): the task is suspended on a timer and the loop
\* takes its next callback.
ExecSleep(L) ==
    EndCallback([L EXCEPT !.tasks[L.cur.t].st = "sleeping",
                          !.tasks[L.cur.t].prog = Tail(L.cur.prog)])

\* An exception leaves the body: _Wrapper.__call__ swallows SystemExit, any
\* other exception becomes the task's outcome.
ExecRaise(L, kind, msg) ==
    IF WrapperOutcome(kind) = "ok"
        THEN [L EXCEPT !.cur.prog = << >>]
        ELSE Complete(L, WrapperOutcome(kind), msg)

\* Shell.__finalize_task cancelling, with self.__continue = False, the
\* tasks that have not ended.
SetContinueFalseCancelling(L) ==
    PopOp([L EXCEPT !.cont = FALSE,
                    !.tasks = [t \in DOMAIN L.tasks |->
                                  IF L.tasks[t].outcome = "pending"
                                      THEN [L.tasks[t] EXCEPT !.outcome = "cancelled",
                                                              !.st = "done",
                                                              !.prog = << >>]
                                      ELSE L.tasks[t]]])

\* Shell.__finalize_task, except Exception: self.__continue = False.
SetContinueFalse(L) ==
    PopOp([L EXCEPT !.cont = FALSE])

\* Shell.banner without its test of self.__banner: the banner is installed
\* over the active one.
BannerEnterUnchecked(L, banner, refresh_delay_s) ==
    PopOp(
        [L EXCEPT !.banner = banner,
                  !.delay = refresh_delay_s,
                  !.stop_event = FALSE,
                  !.tasks = Append([@ EXCEPT ![L.cur.t].child = Len(L.tasks) + 1],
                                   NewTask(EMPTY, 0, BannerTask(use_rawinput), FALSE)),
                  !.ready = CallSoon(@, Cb("step", Len(L.tasks) + 1, EMPTY))])

\* Shell.banner up to its yield: a second banner raises RuntimeError (which
\* leaves the command body); otherwise the banner is installed, the stop
\* event created and the refresh task started.
BannerEnter(L, banner, refresh_delay_s) ==
    IF L.banner # None
        THEN Complete(L, "Exception", <<"A banner is already being displayed">>)
        ELSE PopOp(
            [L EXCEPT !.banner = banner,
                      !.delay = refresh_delay_s,
                      !.stop_event = FALSE,
                      !.tasks = Append([@ EXCEPT ![L.cur.t].child = Len(L.tasks) + 1],
                                       NewTask(EMPTY, 0, BannerTask(use_rawinput), FALSE)),
                      !.ready = CallSoon(@, Cb("step", Len(L.tasks) + 1, EMPTY))])

\* Shell.banner after its yield: self.__update_banner_stop_event.set().
BannerSetStop(L) ==
    PopOp([L EXCEPT !.stop_event = TRUE])

\* Shell.banner: await update_banner_task. A task that is done is not
\* waited for; otherwise the command is suspended until it is.
BannerAwait(L) ==
    LET c == L.tasks[L.cur.t].child IN
    IF L.tasks[c].st = "done"
        THEN PopOp(L)
        ELSE EndCallback([L EXCEPT !.tasks[L.cur.t].st = "waiting",
                                   !.tasks[L.cur.t].prog = Tail(L.cur.prog),
                                   !.tasks[c].waiter = L.cur.t])

\* Shell.banner: self.__banner = None.
BannerClear(L) ==
    PopOp([L EXCEPT !.banner = None])

\* Shell.__update_banner_task: the test of its while loop.
BannerLoopTest(L) ==
    [L EXCEPT !.cur.prog = BannerLoop(L.stop_event) \o Tail(@)]

\* The callback has nothing left to do: a coroutine returns (its task is
\* done and its done callbacks are scheduled); Shell.run returns; any other
\* callback just ends.
Return(L) ==
    IF L.cur.k = "step" THEN Complete(L, "ok", << >>)
    ELSE IF L.cur.k = "run" THEN EndCallback([L EXCEPT !.runpc = "returned"])
    ELSE IF L.cur.k = "finalize"
        THEN EndCallback([L EXCEPT !.tasks[L.cur.t].st = "finalized"])
    ELSE EndCallback(L)

\* The next thing the running callback does is a write to the output (a
\* log or a write of the banner task), which needs the output lock.
AtWrite(L) ==
    /\ L.cur.k # "none"
    /\ L.cur.prog # << >>
    /\ Head(L.cur.prog).op \in {"log", "bwrite"}

\* The next thing the running callback does touches state the read loop's
\* thread also touches: the ready queue, __continue or __banner.
AtShared(L) ==
    IF L.cur.prog = << >> THEN L.cur.k = "step"
    ELSE Head(L.cur.prog).op \in
            {"create_task", "set_state", "raise", "set_continue_false",
             "banner_enter", "banner_clear"}

\* One operation of the running callback (not a write).
ExecOp(L) ==
    IF L.cur.prog = << >> THEN Return(L)
    ELSE LET o == Head(L.cur.prog) IN
         CASE o.op = "create_task" -> CreateTask(L, o.msg, o.n)
           [] o.op = "set_state" -> SetState(L)
           [] o.op = "inc" -> ExecInc(L, o.n)
           [] o.op = "sleep" -> ExecSleep(L)
           [] o.op = "raise" -> ExecRaise(L, o.mod, o.msg)
           [] o.op = "set_continue_false" -> SetContinueFalse(L)
           [] o.op = "banner_enter" -> BannerEnter(L, o.msg, o.mod)
           [] o.op = "banner_set_stop" -> BannerSetStop(L)
           [] o.op = "banner_await" -> BannerAwait(L)
           [] o.op = "banner_clear" -> BannerClear(L)
           [] o.op = "banner_loop" -> BannerLoopTest(L)
           [] OTHER -> PopOp(L)

\* The loop runs its callback on: the operations that touch only what the
\* loop alone uses (x, the tasks, the stop event) are taken together with
\* one operation on shared state, so a step of the loop ends before the
\* next write, before a second operation on shared state, or when the
\* callback ends or is suspended.
RECURSIVE Advance(_, _)
Advance(L, shared) ==
    IF L.cur.k = "none" \/ AtWrite(L) THEN L
    ELSE IF AtShared(L)
        THEN IF shared THEN L ELSE Advance(ExecOp(L), TRUE)
    ELSE Advance(ExecOp(L), shared)

\* The callback at the head of the ready queue, as the loop starts it:
\* Shell.__create_task(coro), the hand-over of the thread's result, the
\* continuation of Shell.run, a step of a task, or Shell.__finalize_task(task).
Start(L) ==
    LET cb == Head(L.ready)
        M == [L EXCEPT !.ready = Tail(@)]
    IN  CASE cb.k = "create_task" ->
                [M EXCEPT !.cur = [k |-> "create_task", t |-> 0,
                                   prog |-> <<Op("create_task", cb.line, None, FALSE, cb.t)>>]]
          [] cb.k = "set_state" ->
                [M EXCEPT !.cur = [k |-> "set_state", t |-> 0,
                                   prog |-> <<OpSimple("set_state")>>]]
          [] cb.k = "wakeup_run" ->
                [M EXCEPT !.cur = [k |-> "run", t |-> 0, prog |-> RunExit],
                          !.runpc = "exiting"]
          [] cb.k = "step" ->
                [M EXCEPT !.cur = [k |-> "step", t |-> cb.t, prog |-> L.tasks[cb.t].prog],
                          !.tasks[cb.t].st = "running",
                          !.tasks[cb.t].steps = @ + 1]
          [] OTHER ->
                [M EXCEPT !.cur = [k |-> "finalize", t |-> cb.t,
                                   prog |-> FinalizeTask(L.tasks[cb.t].outcome,
                                                         L.tasks[cb.t].msg)]]

LoopIdle == cur.k = "none" /\ wr["loop"].stage = "none"

\* BaseEventLoop._run_once: the loop takes the callback at the head of its
\* ready queue and runs it.
RunCallback ==
    /\ LoopIdle
    /\ ready # << >>
    /\ Store(Advance(Start(Here), FALSE))
    /\ UNCHANGED <<registered, use_rawinput, thread, lastcmd, nread, lock, wr, out, submitted,
                   refreshes,
                   drained>>

\* The running callback goes on after an operation on shared state.
Continue ==
    /\ cur.k # "none"
    /\ wr["loop"].stage = "none"
    /\ ~AtWrite(Here)
    /\ Store(Advance(Here, FALSE))
    /\ UNCHANGED <<registered, use_rawinput, thread, lastcmd, nread, lock, wr, out, submitted,
                   refreshes,
                   drained>>

\* The timer of a sleeping task expires: the loop, between two callbacks,
\* schedules its wake-up. A banner refresh task that is not stopped wakes up
\* MaxRefresh times at most.
TimerFire ==
    /\ LoopIdle
    /\ \E t \in 1..Len(tasks) :
        /\ tasks[t].st = "sleeping"
        /\ tasks[t].fin \/ stop_event \/ refreshes < MaxRefresh
        /\ tasks' = [tasks EXCEPT ![t].st = "ready"]
        /\ ready' = CallSoon(ready, Cb("step", t, EMPTY))
    /\ UNCHANGED <<registered, use_rawinput, __continue, __banner, __banner_refresh_delay_s, stop_event, x, runpc,
                   thread, lastcmd, nread, cur, lock, wr, out, submitted,
                   refreshes,
                   drained>>

\* ------------------------------------------------------------ Shell.run

\* Shell.run up to its await: binds the loop, sets __continue and starts
\* cmd.Cmd.cmdloop on a worker thread.
Run ==
    /\ runpc = "idle"
    /\ runpc' = "cmdloop"
    /\ __continue' = TRUE
    /\ thread' = [pc |-> "read", line |-> EMPTY]
    /\ UNCHANGED <<registered, use_rawinput, __banner, __banner_refresh_delay_s, stop_event, x, lastcmd, nread, ready,
                   tasks, cur, lock, wr, out, submitted, refreshes,
                   drained>>

\* The calls of Shell.run that have returned (each logs its exit message).
Returned == Cardinality({ i \in DOMAIN out : out[i].by[1] = "run" })

\* Shell.run called again on the same shell after it has returned: nothing
\* in run tests whether the shell has already been run; it sets __continue
\* and starts cmd.Cmd.cmdloop on a worker thread again.
RunAgain ==
    /\ runpc = "returned"
    /\ Returned <= MaxAgain
    /\ runpc' = "cmdloop"
    /\ __continue' = TRUE
    /\ thread' = [pc |-> "read", line |-> EMPTY]
    /\ UNCHANGED <<registered, use_rawinput, __banner, __banner_refresh_delay_s,
                   stop_event, x, lastcmd, nread, ready,
                   tasks, cur, lock, wr, out, submitted, refreshes,
                   drained>>

\* ------------------------------------------------------- the read loop

\* cmdloop returns: the worker thread ends and the executor's future hands
\* its result to the loop through call_soon_threadsafe. The line that
\* stopped the loop is kept for the properties.
ThreadStop(line) ==
    /\ thread' = [pc |-> "done", line |-> line]
    /\ ready' = CallSoon(ready, Cb("set_state", 0, EMPTY))

\* One iteration of cmd.Cmd.cmdloop up to the handler: read a line (EOF at
\* the end of the stream) and dispatch it with onecmd. do_EOF returns True;
\* do_help and an empty line with no last command return None.
ReadLine ==
    /\ thread.pc = "read"
    /\ \E line \in (IF nread < MaxLines THEN Lines(registered) ELSE {<<"EOF">>}) :
        LET l == Resolve(line, lastcmd)
            h == Handler(l, registered)
        IN  /\ nread' = IF nread < MaxLines THEN nread + 1 ELSE nread
            /\ lastcmd' = NextLastcmd(line, lastcmd)
            /\ drained' = IF __continue = FALSE THEN drained + 1 ELSE drained
            /\ \/ /\ h = "do_EOF"
                  /\ ThreadStop(l)
               \/ /\ h \in {"do_help", "emptyline"}
                  /\ UNCHANGED <<thread, ready>>
               \/ /\ h = "command"
                  /\ thread' = [pc |-> "create_task", line |-> l]
                  /\ UNCHANGED ready
               \/ /\ h = "default"
                  /\ thread' = [pc |-> "default", line |-> l]
                  /\ UNCHANGED ready
    /\ UNCHANGED <<registered, use_rawinput, __continue, __banner, __banner_refresh_delay_s, stop_event, x, runpc,
                   tasks, cur, lock, wr, out, submitted, refreshes>>

\* Shell.create_task without its test of __continue.
AcceptingAlways(c) == TRUE

\* Shell.create_task, the test of __continue.
Accepting(c) == c = TRUE

\* Shell.create_task while not accepting returns True, which stops the read
\* loop; otherwise it goes on to the submission.
CreateTaskCheck ==
    /\ thread.pc = "create_task"
    /\ IF Accepting(__continue)
          THEN /\ thread' = [thread EXCEPT !.pc = "submit"]
               /\ UNCHANGED ready
          ELSE ThreadStop(thread.line)
    /\ UNCHANGED <<registered, use_rawinput, __continue, __banner, __banner_refresh_delay_s, stop_event, x, runpc,
                   lastcmd, nread, tasks, cur, lock, wr, out, submitted, refreshes,
                   drained>>

\* A command task ended with a ShellError and its finalizer has returned
\* (kept with each submitted line for the properties only).
Recovered ==
    \E t \in DOMAIN tasks :
        tasks[t].st = "finalized" /\ tasks[t].outcome = "ShellError"

\* Shell.create_task waiting, before it submits, until the tasks made so far
\* are done.
CreateTaskSubmitBlocking ==
    /\ thread.pc = "submit"
    /\ \A t \in DOMAIN tasks : tasks[t].st \in {"done", "finalized"}
    /\ ready' = CallSoon(ready, Cb("create_task", nread, thread.line))
    /\ submitted' = Append(submitted, [line |-> thread.line, lineno |-> nread,
                                       recovered |-> Recovered])
    /\ thread' = [pc |-> "read", line |-> EMPTY]
    /\ UNCHANGED <<registered, use_rawinput, __continue, __banner, __banner_refresh_delay_s, stop_event, x, runpc,
                   lastcmd, nread, tasks, cur, lock, wr, out, refreshes,
                   drained>>

\* Shell.create_task, the submission: call_soon_threadsafe(__create_task,
\* coro), then return False: the read loop goes on.
CreateTaskSubmit ==
    /\ thread.pc = "submit"
    /\ ready' = CallSoon(ready, Cb("create_task", nread, thread.line))
    /\ submitted' = Append(submitted, [line |-> thread.line, lineno |-> nread,
                                       recovered |-> Recovered])
    /\ thread' = [pc |-> "read", line |-> EMPTY]
    /\ UNCHANGED <<registered, use_rawinput, __continue, __banner, __banner_refresh_delay_s, stop_event, x, runpc,
                   lastcmd, nread, tasks, cur, lock, wr, out, refreshes,
                   drained>>

\* Shell.default after its log_error: return not __continue.
DefaultStop(c) == ~(c = TRUE)

DefaultReturn ==
    /\ thread.pc = "default_ret"
    /\ IF ~DefaultStop(__continue)
          THEN /\ thread' = [pc |-> "read", line |-> EMPTY]
               /\ UNCHANGED ready
          ELSE ThreadStop(thread.line)
    /\ UNCHANGED <<registered, use_rawinput, __continue, __banner, __banner_refresh_delay_s, stop_event, x, runpc,
                   lastcmd, nread, tasks, cur, lock, wr, out, submitted, refreshes,
                   drained>>

\* ---------------------------------------------- the compound write

\* What a context is writing, if anything: Shell.default's log_error on the
\* thread; a log or a banner write at the head of the loop's callback.
Writing(ctx) ==
    IF ctx = "thread" THEN thread.pc = "default" ELSE AtWrite(Here)

Request(ctx) ==
    IF ctx = "thread"
        THEN [op |-> "log", msg |-> DefaultMsg(thread.line), mod |-> "in_red",
              regen |-> TRUE, by |-> <<"default", 0, 0>>]
        ELSE [op |-> Head(cur.prog).op, msg |-> Head(cur.prog).msg,
              mod |-> Head(cur.prog).mod, regen |-> Head(cur.prog).regen,
              by |-> <<cur.k, cur.t, IF cur.k = "step" THEN tasks[cur.t].steps ELSE 0>>]

\* _SynchronizedOStream.acquire: blocks until the lock is free, then holds it.
OStreamAcquire(ctx) == lock = "free" /\ lock' = ctx

\* _SynchronizedOStream.release.
OStreamRelease(ctx) == lock' = "free"

\* Shell.log with self.__ostream.acquire() left out.
LogWriteUnlocked(ctx) ==
    /\ Writing(ctx)
    /\ wr[ctx].stage = "none"
    /\ LET r == Request(ctx)
           text == IF r.op = "log"
                      THEN LogText(r.msg, r.mod, use_rawinput, __banner)
                      ELSE BannerText(r.mod, __banner)
       IN  /\ out' = Append(out, [by |-> r.by, msg |-> r.msg, text |-> text,
                                   redisplay |-> FALSE])
           /\ refreshes' = IF r.op = "bwrite" /\ r.mod = "refresh"
                              THEN refreshes + 1 ELSE refreshes
    /\ wr' = [wr EXCEPT ![ctx] = [stage |-> "written", idx |-> Len(out) + 1]]
    /\ UNCHANGED <<registered, use_rawinput, __continue, __banner, __banner_refresh_delay_s, stop_event, x, runpc,
                   thread, lastcmd, nread, ready, tasks, cur, submitted,
                   drained, lock>>

\* Shell.log and Shell.__update_banner_task up to write_raw: the lock is
\* acquired, the string is built (reading __banner) and handed to write_raw.
LogWrite(ctx) ==
    /\ Writing(ctx)
    /\ wr[ctx].stage = "none"
    /\ OStreamAcquire(ctx)
    /\ LET r == Request(ctx)
           text == IF r.op = "log"
                      THEN LogText(r.msg, r.mod, use_rawinput, __banner)
                      ELSE BannerText(r.mod, __banner)
       IN  /\ out' = Append(out, [by |-> r.by, msg |-> r.msg, text |-> text,
                                   redisplay |-> FALSE])
           /\ refreshes' = IF r.op = "bwrite" /\ r.mod = "refresh"
                              THEN refreshes + 1 ELSE refreshes
    /\ wr' = [wr EXCEPT ![ctx] = [stage |-> "written", idx |-> Len(out) + 1]]
    /\ UNCHANGED <<registered, use_rawinput, __continue, __banner, __banner_refresh_delay_s, stop_event, x, runpc,
                   thread, lastcmd, nread, ready, tasks, cur, submitted,
                   drained>>

\* Shell.log: forced_update_display() is called when interactive and
\* regenerate_prompt; the banner task always calls it.
Redisplays(r, raw) ==
    IF r.op = "log" THEN raw /\ r.regen ELSE TRUE

\* Shell.log and Shell.__update_banner_task after write_raw: the forced
\* redisplay, then self.__ostream.release(); the caller goes on.
LogRelease(ctx) ==
    /\ Writing(ctx)
    /\ wr[ctx].stage = "written"
    /\ out' = IF Redisplays(Request(ctx), use_rawinput)
                 THEN [out EXCEPT ![wr[ctx].idx].redisplay = TRUE]
                 ELSE out
    /\ OStreamRelease(ctx)
    /\ wr' = [wr EXCEPT ![ctx] = [stage |-> "none", idx |-> 0]]
    /\ IF ctx = "thread"
          THEN /\ thread' = [thread EXCEPT !.pc = "default_ret"]
               /\ UNCHANGED <<cur, tasks, ready, x, stop_event, __banner, __banner_refresh_delay_s,
                              __continue, runpc>>
          ELSE /\ Store(Advance(PopOp(Here), TRUE))
               /\ UNCHANGED thread
    /\ UNCHANGED <<registered, use_rawinput, lastcmd, nread, submitted, refreshes,
                   drained>>

\* ------------------------------------------------------ specification

Next ==
    \/ Run
    \/ ReadLine
    \/ CreateTaskCheck
    \/ CreateTaskSubmit
    \/ DefaultReturn
    \/ \E ctx \in Contexts : LogWrite(ctx)
    \/ \E ctx \in Contexts : LogRelease(ctx)
    \/ RunCallback
    \/ Continue
    \/ TimerFire

Spec == Init /\ [][Next]_vars

\* The shell when its owner may call run again after it has returned.
NextAgain == Next \/ RunAgain

SpecAgain == Init /\ [][NextAgain]_vars

\* ============================================================ properties

\* The work items handed to the loop that have not been made a task yet.
PendingCreates(q) ==
    Cardinality({ i \in DOMAIN q : q[i].k = "create_task" })

\* The tasks made by Shell.__create_task (command tasks), in creation order.
CommandTasks == { t \in DOMAIN tasks : tasks[t].fin }

\* The thread takes the step.
ThreadStep == thread' # thread \/ nread' # nread

\* The read loop was stopped by create_task returning True or by default
\* returning True, not by do_EOF.
StoppedNotAccepting ==
    thread.pc = "done" /\ Handler(thread.line, registered) \in {"command", "default"}

\* ----------------------------------------------------------------- C1

C1_Step ==
    /\ (thread.pc = "create_task" /\ ThreadStep) =>
          IF __continue = TRUE
              THEN /\ thread'.pc = "submit"
                   /\ submitted' = submitted
              ELSE /\ thread'.pc = "done"
                   /\ submitted' = submitted
                   /\ tasks' = tasks
                   /\ PendingCreates(ready') = PendingCreates(ready)
    /\ (thread.pc = "submit" /\ ThreadStep) =>
          /\ thread'.pc = "read"
          /\ Len(submitted') = Len(submitted) + 1
          /\ PendingCreates(ready') = PendingCreates(ready) + 1

C1_Inv ==
    /\ PendingCreates(ready) + Cardinality(CommandTasks) = Len(submitted)
    /\ \A t \in DOMAIN tasks : tasks[t].line # EMPTY => tasks[t].fin
    /\ thread.pc = "submit" => Len(submitted) < nread

\* C1: create_task called while accepting is false does nothing: no work is
\* handed to the loop, no task is created, and it returns True ("not
\* scheduled"), which stops the read loop. Called while accepting is true it
\* hands the work to the loop exactly once and returns False ("scheduled":
\* the read loop goes on); every work item handed over becomes exactly one
\* task, with the finalizer registered.
C1_CreateTask == [](C1_Inv) /\ [][C1_Step]_vars

\* C1 witness: a command line was refused (the read loop stopped on it)
\* after accepting became false, and an earlier one was accepted and made a
\* task with its finalizer.
C1_Witness ==
    /\ StoppedNotAccepting
    /\ Handler(thread.line, registered) = "command"
    /\ __continue = FALSE
    /\ Len(submitted) >= 1
    /\ \E t \in CommandTasks : tasks[t].st = "finalized"

\* ----------------------------------------------------------------- C2

\* The writes made by the finalizer of task t, in order.
FinalizerWrites(t) ==
    SelectSeq(out, LAMBDA e : e.by[1] = "finalize" /\ e.by[2] = t)

C2_Inv ==
    /\ \A t \in CommandTasks :
          tasks[t].outcome = "ShellError" =>
              /\ Len(FinalizerWrites(t)) <= 1
              /\ tasks[t].st = "finalized" =>
                    /\ Len(FinalizerWrites(t)) = 1
                    /\ FinalizerWrites(t)[1].msg = tasks[t].msg
    /\ (runpc # "idle" /\ \A t \in CommandTasks : tasks[t].outcome # "Exception")
          => __continue = TRUE

C2_Step ==
    LET Recoverable(c, ts) ==
            c.k = "finalize" /\ ts[c.t].outcome = "ShellError"
    IN  (Recoverable(cur, tasks) \/ Recoverable(cur', tasks'))
            => __continue' = __continue

\* C2: when a command task ends with a ShellError, its finalizer logs
\* exactly one message (the error's) and leaves accepting unchanged;
\* accepting is true as long as no task ended with another error, so a
\* command line submitted afterwards is still scheduled.
C2_Recoverable == [](C2_Inv) /\ [][C2_Step]_vars

\* C2 witness: the first command raised a ShellError and its finalizer has
\* returned; the second command was submitted after that and its body ran
\* (the counter went up).
C2_Witness ==
    /\ Len(tasks) = 2
    /\ tasks[1].outcome = "ShellError"
    /\ Len(FinalizerWrites(1)) = 1
    /\ Len(submitted) = 2
    /\ submitted[2].recovered
    /\ tasks[2].line = <<"increment">>
    /\ tasks[2].st = "finalized"
    /\ x = 1
    /\ __continue = TRUE

\* ----------------------------------------------------------------- C3

C3_Inv ==
    /\ \A t \in CommandTasks :
          tasks[t].outcome = "Exception" =>
              /\ Len(FinalizerWrites(t)) >= 1 => __continue = FALSE
              /\ tasks[t].st = "finalized" =>
                    /\ __continue = FALSE
                    /\ Len(FinalizerWrites(t)) = 2
                    /\ FinalizerWrites(t)[1].msg =
                          <<"An unrecoverable error has occured :">> \o tasks[t].msg
                    /\ FinalizerWrites(t)[2].msg = <<"Press ENTER to quit.">>
    /\ StoppedNotAccepting =>
          /\ __continue = FALSE
          /\ \E t \in CommandTasks :
                tasks[t].outcome = "Exception" /\ tasks[t].lineno < nread

C3_Step ==
    /\ (runpc # "idle" /\ __continue = TRUE /\ __continue' = FALSE) =>
          (thread' = thread /\ nread' = nread)
    /\ (thread.pc # "done" /\ thread'.pc = "done") => ThreadStep

\* C3: when a command task ends with an error that is not a ShellError, its
\* finalizer sets accepting to false and logs the error, then the
\* instruction to press ENTER; the step that sets accepting to false leaves
\* the read loop where it is, and the read loop returns only in a step of
\* its own, on a line that comes after the failed command's line.
C3_Fatal == [](C3_Inv) /\ [][C3_Step]_vars

\* C3 witness: the finalizer of a task that raised has returned, accepting
\* is false, and the read loop is still waiting for a line.
C3_Witness ==
    /\ \E t \in CommandTasks :
          tasks[t].outcome = "Exception" /\ tasks[t].st = "finalized"
    /\ __continue = FALSE
    /\ thread.pc = "read"
    /\ drained = 0

\* ----------------------------------------------------------------- C4

\* C4: once accepting is false, the first line the read loop reads
\* terminates it, whatever the line: after such a line was read the read
\* loop is stopping (in create_task or default, which return True) or
\* stopped, never back at reading, and no second such line is read.
C4_FirstLineStops ==
    drained >= 1 =>
        /\ thread.pc \in {"create_task", "default", "default_ret", "done"}
        /\ drained = 1

\* ----------------------------------------------------------------- C5

C5_Inv ==
    /\ \A ctx \in Contexts :
          wr[ctx].stage # "none" =>
              /\ lock = ctx
              /\ wr[ctx].idx = Len(out)
              /\ out[Len(out)].by = Request(ctx).by
    /\ Cardinality({ ctx \in Contexts : wr[ctx].stage # "none" }) <= 1
    /\ lock # "free" => wr[lock].stage # "none"

C5_Step ==
    out' # out =>
        \E ctx \in Contexts :
            \/ /\ lock = "free" /\ lock' = ctx
               /\ wr'[ctx].stage = "written"
               /\ Len(out') = Len(out) + 1
            \/ /\ lock = ctx /\ lock' = "free"
               /\ wr[ctx].stage = "written"
               /\ Len(out') = Len(out)

\* C5: every write of log and of the banner refresh task is made holding the
\* output lock, from the write to the forced redisplay: at most one context
\* is inside a compound write, it holds the lock, and nothing else is
\* written until it releases it.
C5_Exclusive == [](C5_Inv) /\ [][C5_Step]_vars

\* C5 witness: interactive, a banner is active, the loop is inside a
\* compound write and the read loop, which has an unknown-command message to
\* log, has to wait for the lock.
C5_Witness ==
    /\ use_rawinput
    /\ __banner # None
    /\ wr["loop"].stage = "written"
    /\ thread.pc = "default"
    /\ wr["thread"].stage = "none"

\* ----------------------------------------------------------------- C6

\* The position of command task t among the command tasks.
Rank(t) == Cardinality({ u \in CommandTasks : u <= t })

\* The body of task t has started (its first step was taken).
Started(t) == tasks[t].steps >= 1

ParseOf(line) == Parse(line[1], Tail(line))

\* What the body of a command line adds to the counter.
Amount(line) ==
    IF ~ParseOf(line).ok THEN 0
    ELSE IF line[1] = "increment" THEN 1
    ELSE IF line[1] = "increment_by" THEN ParseOf(line).n
    ELSE 0

\* The sum of the amounts of the first k tasks whose body has started.
RECURSIVE Incremented(_)
Incremented(k) ==
    IF k = 0 THEN 0
    ELSE Incremented(k - 1) +
         (IF tasks[k].fin /\ Started(k) THEN Amount(tasks[k].line) ELSE 0)

\* C6: the command lines submitted while accepting become tasks one for
\* one, in submission order, and their bodies start in that order; the
\* counter is the sum of what the started bodies add (one increment per
\* line), and when run is past its await every submitted line has a task
\* whose body has started.
C6_InOrder ==
    /\ Cardinality(CommandTasks) <= Len(submitted)
    /\ \A t \in CommandTasks :
          /\ tasks[t].line = submitted[Rank(t)].line
          /\ tasks[t].lineno = submitted[Rank(t)].lineno
    /\ \A t, u \in CommandTasks : (t < u /\ Started(u)) => Started(t)
    /\ x = Incremented(Len(tasks))
    /\ runpc \in {"exiting", "returned"} =>
          /\ Cardinality(CommandTasks) = Len(submitted)
          /\ \A t \in CommandTasks : Started(t)

\* C6 witness: two lines, increment and increment_by 5, were submitted;
\* run has returned and the counter is 6.
C6_Witness ==
    /\ Len(submitted) = 2
    /\ submitted[1].line = <<"increment">>
    /\ submitted[2].line = <<"increment_by", "5">>
    /\ runpc = "returned"
    /\ x = 6

\* ----------------------------------------------------------------- C7

\* Entry e of the output is the "Exiting the shell..." message of run.
IsExit(e) == e.by[1] = "run"

\* Entry e was logged by a command's coroutine (not a banner refresh task).
ByCommand(e) == e.by[1] = "step" /\ tasks[e.by[2]].fin

\* C7 as stated: when the read loop ended on the end of the input, no
\* message of a command or of a finalizer is written after "Exiting the
\* shell...".
C7_ExitLast ==
    (thread.pc = "done" /\ thread.line = <<"EOF">>) =>
        \A i, j \in DOMAIN out :
            (i < j /\ IsExit(out[i])) =>
                ~(ByCommand(out[j]) \/ out[j].by[1] = "finalize")

\* C7 amended: no unknown-command message and no message a command logs
\* before its first suspension point is written after "Exiting the
\* shell..." (the messages a command logs after a suspension point and
\* those of the finalizers may be).
C7_ExitAfterFirstStep ==
    \A i, j \in DOMAIN out :
        (i < j /\ IsExit(out[i])) =>
            /\ out[j].by[1] # "default"
            /\ ~(ByCommand(out[j]) /\ out[j].by[3] = 1)

\* C7 witness: the input ended; a command logged before its first
\* suspension point, then run logged its exit message, then the command
\* logged again after its suspension.
C7_Witness ==
    /\ thread.pc = "done" /\ thread.line = <<"EOF">>
    /\ \E i, j, k \in DOMAIN out :
          /\ i < j /\ j < k
          /\ ByCommand(out[i]) /\ out[i].by[3] = 1
          /\ IsExit(out[j])
          /\ ByCommand(out[k]) /\ out[k].by[3] = 2 /\ out[k].by[2] = out[i].by[2]

\* ----------------------------------------------------------------- C8

\* C8: in non-interactive mode every write to the output is a log's
\* message followed by a newline and nothing else (no line eraser, banner
\* text, cursor-up sequence or style), no redisplay is forced, and the
\* banner refresh task writes nothing.
C8_PlainLog ==
    ~use_rawinput =>
        \A i \in DOMAIN out :
            /\ out[i].text = out[i].msg \o <<NL>>
            /\ ~out[i].redisplay
            /\ out[i].by[1] = "step" => tasks[out[i].by[2]].fin

\* C8 witness: non-interactive, a banner is active and the finalizer of a
\* command that raised a ShellError has written its (red) error message.
C8_Witness ==
    /\ ~use_rawinput
    /\ __banner # None
    /\ wr["loop"].stage = "written"
    /\ out[Len(out)].by[1] = "finalize"
    /\ out[Len(out)].msg = <<"Oops">>

\* ----------------------------------------------------------------- C9

\* The writes made by the coroutine of task t, in order.
StepWrites(t) ==
    SelectSeq(out, LAMBDA e : e.by[1] = "step" /\ e.by[2] = t)

\* C9: when the arguments of a command line do not parse, the body is not
\* invoked (the counter only counts the lines that parse), the usage line
\* and then the error message are logged, the task ends normally, its
\* finalizer logs nothing, and accepting is false only if a command that
\* did parse raised.
C9_ParseFailure ==
    /\ \A t \in CommandTasks :
          ~ParseOf(tasks[t].line).ok =>
              /\ tasks[t].outcome \in {"pending", "ok"}
              /\ Len(FinalizerWrites(t)) = 0
              /\ Len(StepWrites(t)) <= 2
              /\ Len(StepWrites(t)) >= 1 =>
                    StepWrites(t)[1].msg = <<"usage:", tasks[t].line[1]>>
              /\ Len(StepWrites(t)) = 2 =>
                    StepWrites(t)[2].msg = <<ParseOf(tasks[t].line).msg>>
              /\ tasks[t].st \in {"done", "finalized"} =>
                    (tasks[t].outcome = "ok" /\ Len(StepWrites(t)) = 2)
    /\ x = Incremented(Len(tasks))
    /\ (runpc # "idle" /\ __continue = FALSE) =>
          \E t \in CommandTasks :
              tasks[t].outcome = "Exception" /\ ParseOf(tasks[t].line).ok

\* C9 witness: the line "increment 5" (a command without arguments) did
\* not parse and its task is finalized; the line "increment" submitted
\* after it ran: the counter is 1 and accepting is true.
C9_Witness ==
    /\ Len(tasks) = 2
    /\ tasks[1].line = <<"increment", "5">>
    /\ tasks[1].st = "finalized"
    /\ Len(StepWrites(1)) = 2
    /\ tasks[2].line = <<"increment">>
    /\ tasks[2].st = "finalized"
    /\ x = 1
    /\ __continue = TRUE

\* ---------------------------------------------------------------- C10

\* C10: scheduling never waits for a task: whatever the tasks are doing
\* (suspended at a timed wait or not), the read loop can read its next
\* line, create_task can make its test and its submission and return, and
\* the loop, when it is between two callbacks and the first step of a new
\* task is next in its queue, can run it while an earlier command task is
\* suspended at a timed wait.
C10_NeverWaits ==
    /\ thread.pc = "read" => ENABLED ReadLine
    /\ thread.pc = "create_task" => ENABLED CreateTaskCheck
    /\ thread.pc = "submit" => ENABLED CreateTaskSubmit
    /\ (/\ LoopIdle /\ ready # << >>
        /\ Head(ready).k = "step" /\ tasks[Head(ready).t].st = "new"
        /\ \E u \in CommandTasks : tasks[u].st = "sleeping")
          => ENABLED RunCallback

\* C10 witness: the first command is suspended at its first timed wait
\* (it has taken one step); the task of the second line, whose first step
\* comes after the first command's, has run and is finalized, and the read
\* loop is back at reading.
C10_Witness ==
    /\ Len(tasks) = 2
    /\ tasks[1].st = "sleeping"
    /\ tasks[1].steps = 1
    /\ Len(submitted) = 2
    /\ tasks[2].st = "finalized"
    /\ thread.pc = "read"

\* ---------------------------------------------------------------- C11

\* The banner refresh tasks (made by Shell.banner) that have not ended.
LiveRefreshTasks ==
    { c \in DOMAIN tasks : ~tasks[c].fin /\ tasks[c].st # "done" }

\* The message of the RuntimeError of Shell.banner.
ALREADY == <<"A banner is already being displayed">>

\* Task t ended on a failed start of a banner.
FailedStart(ts, t) ==
    ts[t].outcome = "Exception" /\ ts[t].msg = ALREADY

C11_Inv ==
    /\ Cardinality(LiveRefreshTasks) <= 1
    /\ LiveRefreshTasks # {} => __banner # None
    /\ __banner = None => \A c \in DOMAIN tasks : tasks[c].fin \/ tasks[c].st = "done"

C11_Step ==
    \A t \in DOMAIN tasks :
        (tasks[t].outcome = "pending" /\ FailedStart(tasks', t)) =>
            /\ __banner # None
            /\ __banner' = __banner
            /\ __banner_refresh_delay_s' = __banner_refresh_delay_s
            /\ stop_event' = stop_event
            /\ Len(tasks') = Len(tasks)
            /\ \A c \in DOMAIN tasks : ~tasks[c].fin => tasks'[c] = tasks[c]

Suspended(t) ==
    tasks[t].outcome = "pending" /\ tasks[t].st \in {"sleeping", "waiting"}

\* C12 as stated: when run has returned after the end of the input, no
\* command task is still suspended at its wait point: a cancellation was
\* delivered to each there.
C12_CancelledOnExit ==
    (runpc = "returned" /\ thread.line = <<"EOF">>) =>
        \A t \in CommandTasks : ~Suspended(t)

\* ---------------------------------------------------------------- C13

\* Command task t has ended (control has left every scope it entered).
Ended(t) == tasks[t].st \in {"done", "finalized"}

\* Entry e of the output is the cleanup write of refresh task c.
IsCleanup(e, c) ==
    e.by[1] = "step" /\ e.by[2] = c /\ e.text = <<NL, ERASER, UP_GOER>>

\* C13 as stated: every banner that was started is stopped when control
\* leaves its scope, also when the code inside the scope fails: once the
\* command that started a banner has ended, the refresh task has ended and
\* (interactive mode) has made its cleanup write, and a banner is installed
\* only while a command is inside the scope of the banner it started.
C13_ScopeStops ==
    /\ \A t \in CommandTasks :
          (tasks[t].child # 0 /\ Ended(t)) =>
              /\ tasks[tasks[t].child].st = "done"
              /\ use_rawinput =>
                    \E i \in DOMAIN out : IsCleanup(out[i], tasks[t].child)
    /\ __banner # None =>
          \E t \in CommandTasks : tasks[t].child # 0 /\ ~Ended(t)

\* ---------------------------------------------------------------- C14

\* The banner refresh tasks made so far.
RefreshTasks == { c \in DOMAIN tasks : ~tasks[c].fin }

\* Entry e of the output draws the text of a banner.
ShowsBanner(e) ==
    \E p \in DOMAIN e.text : e.text[p] \in {BANNER_TEXT, OUTER_TEXT, INNER_TEXT}

\* C14 as stated: in interactive mode, once the refresh task of a banner
\* has made its final cleanup write, no banner text is written to the
\* output (checked while that banner is the only one started, so any
\* banner text is its own), and once the command that stopped it has ended
\* (stop has returned) the stop event is set, the refresh task is done and
\* no banner is installed.
C14_CleanStop ==
    (use_rawinput /\ Cardinality(RefreshTasks) = 1) =>
        /\ \A c \in RefreshTasks : \A i, j \in DOMAIN out :
              (i < j /\ IsCleanup(out[i], c)) => ~ShowsBanner(out[j])
        /\ \A t \in CommandTasks :
              (tasks[t].child # 0 /\ Ended(t) /\ tasks[t].outcome = "ok") =>
                  /\ stop_event
                  /\ tasks[tasks[t].child].st = "done"
                  /\ __banner = None

\* ---------------------------------------------------------------- C15

\* C15 as stated: accepting only ever changes from true to false, and once
\* the read loop has returned it stays returned and reads no further line,
\* also when run is called again.
C15_Terminal ==
    [][ /\ (runpc # "idle" /\ __continue = FALSE) => __continue' = FALSE
        /\ thread.pc = "done" => (thread'.pc = "done" /\ nread' = nread) ]_vars

\* ---------------------------------------------------------------- C16

\* C16 as stated: the end of the input sets accepting to false before the
\* read loop returns, so whenever the read loop has returned accepting is
\* false (the test create_task makes fails: it schedules nothing).
C16_EofDrains ==
    thread.pc = "done" => (__continue = FALSE /\ ~Accepting(__continue))

\* ---------------------------------------------------------------- C17

\* The step being taken is a step of task t itself: the loop is running
\* its coroutine, or is idle with its step at the head of the ready queue.
OwnStep(t) ==
    \/ cur.k = "step" /\ cur.t = t
    \/ cur.k = "none" /\ ready # << >> /\ Head(ready).k = "step" /\ Head(ready).t = t

\* The session is stopping or stopped: a fatal error has set accepting to
\* false, or the read loop has returned.
Stopping == runpc # "idle" /\ (__continue = FALSE \/ thread.pc = "done")

C17_Step ==
    /\ Len(tasks') >= Len(tasks)
    /\ \A t \in DOMAIN tasks :
          /\ (tasks[t].outcome = "pending" /\ tasks'[t].outcome # "pending") =>
                (OwnStep(t) /\ tasks'[t].outcome \in {"ok", "ShellError", "Exception"})
          /\ tasks'[t].prog # tasks[t].prog => OwnStep(t)
          /\ (tasks[t].st = "sleeping" /\ tasks'[t].st # "sleeping") =>
                (tasks'[t].st = "ready" /\ ready' = Append(ready, Cb("step", t, EMPTY)))

C17_Inv ==
    /\ (Stopping /\ LoopIdle /\ \E t \in CommandTasks : tasks[t].st = "sleeping")
          => ENABLED TimerFire
    /\ \A t \in CommandTasks :
          /\ tasks[t].st = "ready" =>
                \E i \in DOMAIN ready : ready[i] = Cb("step", t, EMPTY)
          /\ tasks[t].st = "done" =>
                \/ \E i \in DOMAIN ready : ready[i] = Cb("finalize", t, EMPTY)
                \/ cur.k = "finalize" /\ cur.t = t
          /\ tasks[t].st = "finalized" =>
                Len(FinalizerWrites(t)) =
                    (CASE tasks[t].outcome = "ShellError" -> 1
                       [] tasks[t].outcome = "Exception" -> 2
                       [] OTHER -> 0)

C18_SilentBanner ==
    ~use_rawinput =>
        /\ refreshes = 0
        /\ \A c \in RefreshTasks :
              /\ StepWrites(c) = << >>
              /\ tasks[c].steps <= 1
              /\ tasks[c].st \notin {"sleeping", "waiting"}
        /\ \A i \in DOMAIN out :
              out[i].by[1] = "step" => /\ ByCommand(out[i])
                                       /\ out[i].msg # << >>
        /\ \A t \in CommandTasks :
              /\ tasks[t].st = "waiting" => tasks[tasks[t].child].st # "sleeping"
              /\ (tasks[t].line = <<"banner">> /\ tasks[t].st = "finalized"
                     /\ tasks[t].outcome = "ok") =>
                    StepWrites(t) = << >> /\ FinalizerWrites(t) = << >>

\* C18 witness: non-interactive, a banner command has started its banner,
\* slept, stopped the banner and ended normally; its refresh task is done
\* after a single step, and the banner is cleared.
C18_Witness ==
    /\ ~use_rawinput
    /\ __banner = None
    /\ \E t \in CommandTasks :
          /\ tasks[t].line = <<"banner">>
          /\ tasks[t].st = "finalized" /\ tasks[t].outcome = "ok"
          /\ tasks[t].child \in RefreshTasks
          /\ tasks[tasks[t].child].st = "done"
          /\ tasks[tasks[t].child].steps = 1

\* ---------------------------------------------------------------- C19

\* C19: whenever a step creates a command task (a task with a finalizer is
\* added to the tasks of the loop), accepting is true.
C19_CreatedWhileAccepting ==
    [][(\E t \in DOMAIN tasks' : t \notin DOMAIN tasks /\ tasks'[t].fin)
          => __continue = TRUE]_vars

====
